---------------------------- MODULE Spec2Model ----------------------------
(***************************************************************************)
(* Equal-loudness (ReplayGain) filter cascade:                             *)
(* audio_filters/equal_loudness_filter.py.                                 *)
(*                                                                         *)
(* Numbers.  The program computes in double precision.  Here a real x is   *)
(* the integer nearest to 1000 * x (three decimals, so 1.0 is 1000), the   *)
(* coefficient table holds the source's entries rounded to that grid, a    *)
(* product of two such numbers carries the factor 1000 * 1000, and the     *)
(* one division of the recurrence (by feedback[0]) rounds to the nearest   *)
(* grid point.  Signed zeros, NaN and infinities are not represented.      *)
(***************************************************************************)
EXTENDS Integers, Sequences, FiniteSets, TLC

(***************************************************************************)
(* State.                                                                  *)
(***************************************************************************)
VARIABLES
    REPLAYGAIN_COEFFS,  \* the module-level coefficient table
    filt,               \* instance -> cascade object, or None
    rateOf,             \* instance -> the rate it was constructed with (0: none)
    op,                 \* the last operation called
    arg,                \* its argument (a rate, a sample; 0 for reset)
    err,                \* the exception the last operation raised, or NoExc
    calls,              \* the stage calls the last process call made
    ret,                \* the value the last process call returned
    log,                \* instance -> samples processed since construction/reset
    mids,               \* instance -> shaping-stage outputs over the same calls
    outs,               \* instance -> values returned over the same calls
    phase,              \* instance -> "none", "fresh", "reset" or "resetDirty"
    stream,             \* the input stream shared by the two instances
    snaps               \* instance -> cascade state after each stream step

vars == <<REPLAYGAIN_COEFFS, filt, rateOf, op, arg, err, calls, ret, log, mids,
          outs, phase, stream, snaps>>

(***************************************************************************)
(* Bounds of the model.                                                    *)
(***************************************************************************)
\* longest run of process calls on one cascade since construction or reset
MaxLen == 11
\* longest shared input stream of the two-instance specification
MaxStream == 2

(***************************************************************************)
(* Program constants.                                                      *)
(***************************************************************************)
YulewalkOrder == 10
ButterworthOrder == 2
DefaultSamplerate == 44100
UnsupportedSamplerate == 12345

\* sample values offered to process: 0.0 and 1.0
Samples == {0, 1000}

\* sample-rate identifiers offered to the constructor
RateInputs == {32000, 44100, 48000, UnsupportedSamplerate, 22050}

\* the two cascade instances of the two-instance specification
Inst == {1, 2}

\* _REPLAYGAIN_COEFFS, entries in units of 1/1000
ReplayGainCoeffs ==
    (44100 :> [yule_a   |-> <<1000, -3478, 6363, -8548, 9477, -8815,
                              6854, -4395, 2196, -751, 131>>,
               yule_b   |-> <<54, -29, -8, -9, -8, 22, -26, 16, -2, 7, -2>>,
               butter_a |-> <<1000, -1970, 970>>,
               butter_b |-> <<985, -1970, 985>>])
 @@ (48000 :> [yule_a   |-> <<1000, -3847, 7815, -11342, 13055, -12288,
                              9483, -5873, 2755, -870, 139>>,
               yule_b   |-> <<39, -22, -1, 0, -17, 22, -21, 6, 3, 0, 3>>,
               butter_a |-> <<1000, -1972, 973>>,
               butter_b |-> <<986, -1972, 986>>])
 @@ (32000 :> [yule_a   |-> <<1000, -2379, 2849, -2646, 2237, -1671,
                              1006, -460, 164, -50, 23>>,
               yule_b   |-> <<155, -93, -62, 22, -56, 48, 2, 32, -14, 7, -9>>,
               butter_a |-> <<1000, -1958, 959>>,
               butter_b |-> <<979, -1959, 979>>])

(***************************************************************************)
(* Values.                                                                 *)
(***************************************************************************)
\* no exception raised
NoExc == [type |-> "None"]
\* no object (a name that is not bound to a cascade)
None == [none |-> TRUE]

Abs(x) == IF x < 0 THEN -x ELSE x

\* n / d rounded to the nearest grid point (d # 0)
RoundDiv(n, d) ==
    LET q == (2 * Abs(n) + Abs(d)) \div (2 * Abs(d))
    IN  IF (n < 0) = (d < 0) THEN q ELSE -q

\* [0.0] * n
Zeros(n) == [k \in 1..n |-> 0]

\* sorted(S) for a finite set of integers
RECURSIVE sorted(_)
sorted(S) ==
    IF S = {} THEN <<>>
    ELSE LET m == CHOOSE x \in S : \A y \in S : x <= y
         IN  <<m>> \o sorted(S \ {m})

\* the last n entries of s (all of s when it is shorter)
LastN(s, n) ==
    IF Len(s) <= n THEN s ELSE SubSeq(s, Len(s) - n + 1, Len(s))

(***************************************************************************)
(* IIRFilter (audio_filters/iir_filter.py): the recursive filter the       *)
(* cascade imports.  Histories are kept most-recent-last.                  *)
(***************************************************************************)
IIRFilter(order) ==
    [order          |-> order,
     feedback       |-> <<>>,
     feedforward    |-> <<>>,
     input_history  |-> Zeros(order),
     output_history |-> Zeros(order)]

\* configure: install a coefficient set, rejecting a wrong length
set_coefficients(f, a_coeffs, b_coeffs) ==
    IF Len(a_coeffs) # f.order + 1 \/ Len(b_coeffs) # f.order + 1
    THEN [exc |-> [type |-> "ConfigurationError"], self |-> f]
    ELSE [exc  |-> NoExc,
          self |-> [f EXCEPT !.feedback = a_coeffs, !.feedforward = b_coeffs]]

\* sum over i in lo..hi of feedforward[i+1] * x[n-i] - feedback[i+1] * y[n-i]
RECURSIVE Recurrence(_, _, _)
Recurrence(f, lo, hi) ==
    IF lo > hi THEN 0
    ELSE f.feedforward[lo + 1] * f.input_history[Len(f.input_history) - lo + 1]
         - f.feedback[lo + 1] * f.output_history[Len(f.output_history) - lo + 1]
         + Recurrence(f, lo + 1, hi)

\* drop the oldest entry, append the newest
Shift(h, v) == IF h = <<>> THEN <<>> ELSE Tail(h) \o <<v>>

\* process(sample): [exc, self, ret]
IIRFilter_process(f, sample) ==
    IF \/ Len(f.feedback) < f.order + 1
       \/ Len(f.feedforward) < f.order + 1
       \/ Len(f.input_history) < f.order
       \/ Len(f.output_history) < f.order
    THEN [exc |-> [type |-> "IndexError"], self |-> f, ret |-> 0]
    ELSE IF f.feedback[1] = 0
    THEN [exc |-> [type |-> "ZeroDivisionError"], self |-> f, ret |-> 0]
    ELSE LET result == RoundDiv(Recurrence(f, 1, f.order)
                                    + f.feedforward[1] * sample,
                                f.feedback[1])
         IN  [exc  |-> NoExc,
              self |-> [f EXCEPT
                          !.input_history  = Shift(@, sample),
                          !.output_history = Shift(@, result)],
              ret  |-> result]

(***************************************************************************)
(* EqualLoudnessFilter                                                     *)
(***************************************************************************)
\* a constructor that falls back to the default rate for an unknown one
EqualLoudnessFilter_init_fallback(tbl, samplerate) ==
    LET coeffs == IF samplerate \in DOMAIN tbl THEN tbl[samplerate]
                  ELSE tbl[DefaultSamplerate]
        yule   == set_coefficients(IIRFilter(YulewalkOrder),
                                   coeffs.yule_a, coeffs.yule_b)
        butter == set_coefficients(IIRFilter(ButterworthOrder),
                                   coeffs.butter_a, coeffs.butter_b)
    IN  [exc  |-> NoExc,
         self |-> [yulewalk_filter    |-> yule.self,
                   butterworth_filter |-> butter.self]]

\* a constructor that configures the highpass stage from the yulewalk half
EqualLoudnessFilter_init_yule_twice(tbl, samplerate) ==
    IF samplerate \notin DOMAIN tbl
    THEN [exc  |-> [type       |-> "ValueError",
                    samplerate |-> samplerate,
                    supported  |-> sorted(DOMAIN tbl)],
          self |-> None]
    ELSE LET coeffs == tbl[samplerate]
             yule   == set_coefficients(IIRFilter(YulewalkOrder),
                                        coeffs.yule_a, coeffs.yule_b)
             butter == set_coefficients(IIRFilter(ButterworthOrder),
                                        coeffs.yule_a, coeffs.yule_b)
         IN  IF yule.exc # NoExc THEN [exc |-> yule.exc, self |-> None]
             ELSE IF butter.exc # NoExc THEN [exc |-> butter.exc, self |-> None]
             ELSE [exc  |-> NoExc,
                   self |-> [yulewalk_filter    |-> yule.self,
                             butterworth_filter |-> butter.self]]

\* __init__(samplerate) against the table tbl: [exc, self]
EqualLoudnessFilter_init(tbl, samplerate) ==
    IF samplerate \notin DOMAIN tbl
    THEN [exc  |-> [type       |-> "ValueError",
                    samplerate |-> samplerate,
                    supported  |-> sorted(DOMAIN tbl)],
          self |-> None]
    ELSE LET coeffs == tbl[samplerate]
             yule   == set_coefficients(IIRFilter(YulewalkOrder),
                                        coeffs.yule_a, coeffs.yule_b)
             butter == set_coefficients(IIRFilter(ButterworthOrder),
                                        coeffs.butter_a, coeffs.butter_b)
         IN  IF yule.exc # NoExc THEN [exc |-> yule.exc, self |-> None]
             ELSE IF butter.exc # NoExc THEN [exc |-> butter.exc, self |-> None]
             ELSE [exc  |-> NoExc,
                   self |-> [yulewalk_filter    |-> yule.self,
                             butterworth_filter |-> butter.self]]

\* a reset that forgets the shaping stage's output history
EqualLoudnessFilter_reset_keeps_outputs(self) ==
    [self EXCEPT
       !.yulewalk_filter.input_history     = Zeros(self.yulewalk_filter.order),
       !.butterworth_filter.input_history  = Zeros(self.butterworth_filter.order),
       !.butterworth_filter.output_history = Zeros(self.butterworth_filter.order)]

\* a reset that clears the shaping stage only
EqualLoudnessFilter_reset_shaping_only(self) ==
    [self EXCEPT
       !.yulewalk_filter.input_history  = Zeros(self.yulewalk_filter.order),
       !.yulewalk_filter.output_history = Zeros(self.yulewalk_filter.order)]

\* a reset that builds each buffer one entry short
EqualLoudnessFilter_reset_short(self) ==
    [self EXCEPT
       !.yulewalk_filter.input_history     = Zeros(self.yulewalk_filter.order - 1),
       !.yulewalk_filter.output_history    = Zeros(self.yulewalk_filter.order - 1),
       !.butterworth_filter.input_history  = Zeros(self.butterworth_filter.order - 1),
       !.butterworth_filter.output_history = Zeros(self.butterworth_filter.order - 1)]

\* a reset that replaces both stages by new, unconfigured filters
EqualLoudnessFilter_reset_rebuild(self) ==
    [yulewalk_filter    |-> IIRFilter(self.yulewalk_filter.order),
     butterworth_filter |-> IIRFilter(self.butterworth_filter.order)]

\* a reset that sizes every buffer by the literal 10
EqualLoudnessFilter_reset_hardcoded(self) ==
    [self EXCEPT
       !.yulewalk_filter.input_history     = Zeros(10),
       !.yulewalk_filter.output_history    = Zeros(10),
       !.butterworth_filter.input_history  = Zeros(10),
       !.butterworth_filter.output_history = Zeros(10)]

\* reset(): the four history buffers rebuilt from each stage's own order
EqualLoudnessFilter_reset(self) ==
    [self EXCEPT
       !.yulewalk_filter.input_history     = Zeros(self.yulewalk_filter.order),
       !.yulewalk_filter.output_history    = Zeros(self.yulewalk_filter.order),
       !.butterworth_filter.input_history  = Zeros(self.butterworth_filter.order),
       !.butterworth_filter.output_history = Zeros(self.butterworth_filter.order)]

\* a process that feeds the raw sample to both stages
EqualLoudnessFilter_process_parallel(self, sample) ==
    LET y == IIRFilter_process(self.yulewalk_filter, sample)
        s1 == [self EXCEPT !.yulewalk_filter = y.self]
        c1 == [stage |-> "yulewalk", arg |-> sample, ret |-> y.ret]
    IN  IF y.exc # NoExc
        THEN [exc |-> y.exc, self |-> s1, ret |-> 0, calls |-> <<c1>>]
        ELSE LET b   == IIRFilter_process(self.butterworth_filter, sample)
                 s2  == [s1 EXCEPT !.butterworth_filter = b.self]
                 c2  == [stage |-> "butterworth", arg |-> sample, ret |-> b.ret]
             IN  [exc   |-> b.exc,
                  self  |-> s2,
                  ret   |-> b.ret,
                  calls |-> <<c1, c2>>]

\* a process whose shaping stage is one object shared by every instance
\* (the stage of instance 1)
EqualLoudnessFilter_process_shared(self, sample) ==
    LET shared == IF filt[1] # None THEN filt[1].yulewalk_filter
                  ELSE self.yulewalk_filter
        y == IIRFilter_process(shared, sample)
        s1 == [self EXCEPT !.yulewalk_filter = y.self]
        c1 == [stage |-> "yulewalk", arg |-> sample, ret |-> y.ret]
    IN  IF y.exc # NoExc
        THEN [exc |-> y.exc, self |-> s1, ret |-> 0, calls |-> <<c1>>]
        ELSE LET tmp == y.ret
                 b   == IIRFilter_process(self.butterworth_filter, tmp)
                 s2  == [s1 EXCEPT !.butterworth_filter = b.self]
                 c2  == [stage |-> "butterworth", arg |-> tmp, ret |-> b.ret]
             IN  [exc   |-> b.exc,
                  self  |-> s2,
                  ret   |-> b.ret,
                  calls |-> <<c1, c2>>]

\* process(sample): [exc, self, ret, calls]; calls lists the stage calls made,
\* in order, each with its argument and its result
EqualLoudnessFilter_process(self, sample) ==
    LET y == IIRFilter_process(self.yulewalk_filter, sample)
        s1 == [self EXCEPT !.yulewalk_filter = y.self]
        c1 == [stage |-> "yulewalk", arg |-> sample, ret |-> y.ret]
    IN  IF y.exc # NoExc
        THEN [exc |-> y.exc, self |-> s1, ret |-> 0, calls |-> <<c1>>]
        ELSE LET tmp == y.ret
                 b   == IIRFilter_process(self.butterworth_filter, tmp)
                 s2  == [s1 EXCEPT !.butterworth_filter = b.self]
                 c2  == [stage |-> "butterworth", arg |-> tmp, ret |-> b.ret]
             IN  [exc   |-> b.exc,
                  self  |-> s2,
                  ret   |-> b.ret,
                  calls |-> <<c1, c2>>]

Init ==
    /\ REPLAYGAIN_COEFFS = ReplayGainCoeffs
    /\ filt = [i \in Inst |-> None]
    /\ rateOf = [i \in Inst |-> 0]
    /\ op = "none"
    /\ arg = 0
    /\ err = NoExc
    /\ calls = <<>>
    /\ ret = 0
    /\ log = [i \in Inst |-> <<>>]
    /\ mids = [i \in Inst |-> <<>>]
    /\ outs = [i \in Inst |-> <<>>]
    /\ phase = [i \in Inst |-> "none"]
    /\ stream = <<>>
    /\ snaps = [i \in Inst |-> <<>>]

\* filt_i = EqualLoudnessFilter(samplerate)
DoConstruct(i, samplerate) ==
    /\ filt[i] = None
    /\ LET r == EqualLoudnessFilter_init(REPLAYGAIN_COEFFS, samplerate)
       IN  /\ op' = "init"
           /\ arg' = samplerate
           /\ err' = r.exc
           /\ filt' = [filt EXCEPT ![i] = r.self]
           /\ rateOf' = [rateOf EXCEPT ![i] = IF r.exc = NoExc THEN samplerate ELSE 0]
           /\ phase' = [phase EXCEPT ![i] = IF r.exc = NoExc THEN "fresh" ELSE "none"]
    /\ UNCHANGED <<REPLAYGAIN_COEFFS, calls, ret, log, mids, outs, stream, snaps>>

\* filt_i.process(sample)
DoProcess(i, sample) ==
    /\ filt[i] # None
    /\ Len(log[i]) < MaxLen
    /\ LET r == EqualLoudnessFilter_process(filt[i], sample)
       IN  /\ op' = "process"
           /\ arg' = sample
           /\ err' = r.exc
           /\ filt' = [filt EXCEPT ![i] = r.self]
           /\ calls' = r.calls
           /\ ret' = r.ret
           /\ log' = [log EXCEPT ![i] = Append(@, sample)]
           /\ mids' = [mids EXCEPT ![i] = Append(@, r.calls[1].ret)]
           /\ outs' = [outs EXCEPT ![i] = Append(@, r.ret)]
    /\ UNCHANGED <<REPLAYGAIN_COEFFS, rateOf, phase, stream>>

\* any history entry of the cascade is nonzero
Dirty(self) ==
    \/ \E k \in DOMAIN self.yulewalk_filter.input_history :
           self.yulewalk_filter.input_history[k] # 0
    \/ \E k \in DOMAIN self.yulewalk_filter.output_history :
           self.yulewalk_filter.output_history[k] # 0
    \/ \E k \in DOMAIN self.butterworth_filter.input_history :
           self.butterworth_filter.input_history[k] # 0
    \/ \E k \in DOMAIN self.butterworth_filter.output_history :
           self.butterworth_filter.output_history[k] # 0

\* filt_i.reset()
DoReset(i) ==
    /\ filt[i] # None
    /\ op' = "reset"
    /\ arg' = 0
    /\ err' = NoExc
    /\ filt' = [filt EXCEPT ![i] = EqualLoudnessFilter_reset(@)]
    /\ phase' = [phase EXCEPT ![i] = IF Dirty(filt[i]) THEN "resetDirty" ELSE "reset"]
    /\ log' = [log EXCEPT ![i] = <<>>]
    /\ mids' = [mids EXCEPT ![i] = <<>>]
    /\ outs' = [outs EXCEPT ![i] = <<>>]
    /\ snaps' = [snaps EXCEPT ![i] = <<>>]
    /\ UNCHANGED <<REPLAYGAIN_COEFFS, rateOf, calls, ret, stream>>

(***************************************************************************)
(* One cascade driven by a caller: construct, process, reset.              *)
(***************************************************************************)
Construct(samplerate) == DoConstruct(1, samplerate)

\* EqualLoudnessFilter() with the default argument
ConstructDefault == DoConstruct(1, DefaultSamplerate)

Process(sample) ==
    /\ DoProcess(1, sample)
    /\ UNCHANGED snaps

Reset == DoReset(1)

Next ==
    \/ \E sr \in RateInputs : Construct(sr)
    \/ ConstructDefault
    \/ \E s \in Samples : Process(s)
    \/ Reset

Spec == Init /\ [][Next]_vars

(***************************************************************************)
(* Two cascades fed the same stream, their calls interleaved at will.      *)
(***************************************************************************)
PairConstruct(i, samplerate) == DoConstruct(i, samplerate)

\* the caller reads one more sample of the stream
Extend(sample) ==
    /\ Len(stream) < MaxStream
    /\ stream' = Append(stream, sample)
    /\ UNCHANGED <<REPLAYGAIN_COEFFS, filt, rateOf, op, arg, err, calls, ret,
                   log, mids, outs, phase, snaps>>

\* instance i processes its next sample of the stream
ProcessStream(i) ==
    /\ Len(log[i]) < Len(stream)
    /\ DoProcess(i, stream[Len(log[i]) + 1])
    /\ snaps' = [snaps EXCEPT ![i] = Append(@, filt'[i])]

\* instance i is reset and starts the stream over
PairReset(i) == DoReset(i)

NextPair ==
    \/ \E i \in Inst, sr \in RateInputs : PairConstruct(i, sr)
    \/ \E s \in Samples : Extend(s)
    \/ \E i \in Inst : ProcessStream(i)
    \/ \E i \in Inst : PairReset(i)

SpecPair == Init /\ [][NextPair]_vars

(***************************************************************************)
(* Properties.                                                             *)
(***************************************************************************)
AllZero(s) == \A k \in DOMAIN s : s[k] = 0

Min(a, b) == IF a <= b THEN a ELSE b

\* a cascade fed the samples xs one by one: [self, outs]
RECURSIVE Run(_, _)
Run(st, xs) ==
    IF xs = <<>> THEN st
    ELSE LET r == EqualLoudnessFilter_process(st.self, Head(xs))
         IN  Run([self |-> r.self, outs |-> Append(st.outs, r.ret)], Tail(xs))

\* a newly constructed cascade of the given rate fed the samples xs
FreshRun(samplerate, xs) ==
    Run([self |-> EqualLoudnessFilter_init(ReplayGainCoeffs, samplerate).self,
         outs |-> <<>>], xs)

\* C1: constructing with a rate that is no key of the table raises the
\* unsupported-rate error (a ValueError) carrying the requested rate and the
\* supported rates 32000, 44100, 48000, and binds no cascade.
C1_UnsupportedRateRaises ==
    (op = "init" /\ arg \notin {32000, 44100, 48000}) =>
        /\ err = [type       |-> "ValueError",
                  samplerate |-> arg,
                  supported  |-> <<32000, 44100, 48000>>]
        /\ filt[1] = None
        /\ rateOf[1] = 0
        /\ phase[1] = "none"

C1_Witness ==
    /\ op = "init"
    /\ arg = UnsupportedSamplerate
    /\ err.type = "ValueError"
    /\ filt[1] = None

\* C2: while every sample processed since construction or since the last
\* reset is 0.0, every value returned is 0.0 and all four histories are zero.
C2_ZeroInZeroOut ==
    (filt[1] # None /\ AllZero(log[1])) =>
        /\ Len(outs[1]) = Len(log[1])
        /\ AllZero(outs[1])
        /\ ~Dirty(filt[1])
        /\ (op = "process" => ret = 0 /\ err = NoExc)

C2_Witness ==
    /\ phase[1] = "resetDirty"
    /\ op = "process"
    /\ log[1] = <<0, 0>>
    /\ outs[1] = <<0, 0>>
    /\ ret = 0

\* C3: a process step runs the yulewalk stage once on the sample, then the
\* butterworth stage once on the yulewalk result, and returns the butterworth
\* result; each stage's new state is its old state advanced by that one call.
C3_StageOrder ==
    [][op' = "process" =>
         LET y == IIRFilter_process(filt[1].yulewalk_filter, arg')
             b == IIRFilter_process(filt[1].butterworth_filter, y.ret)
         IN  /\ filt'[1].yulewalk_filter = y.self
             /\ filt'[1].butterworth_filter = b.self
             /\ ret' = b.ret
             /\ calls' = <<[stage |-> "yulewalk", arg |-> arg', ret |-> y.ret],
                          [stage |-> "butterworth", arg |-> y.ret, ret |-> b.ret]>>
    ]_vars

C3_Witness ==
    /\ op = "process"
    /\ Len(log[1]) >= 2
    /\ Len(calls) = 2
    /\ calls[1].arg = arg
    /\ calls[1].ret # arg
    /\ calls[2].arg = calls[1].ret
    /\ calls[2].ret # calls[1].ret
    /\ ret = calls[2].ret

\* C4: after a reset, the outputs produced and the state reached on the
\* samples processed since are those of a newly constructed cascade of the
\* same rate on the same samples.
C4_ResetEquivalence ==
    (filt[1] # None /\ phase[1] \in {"reset", "resetDirty"}) =>
        LET fresh == FreshRun(rateOf[1], log[1])
        IN  /\ outs[1] = fresh.outs
            /\ filt[1] = fresh.self

C4_Witness ==
    /\ phase[1] = "resetDirty"
    /\ Len(log[1]) >= 3
    /\ ~AllZero(outs[1])
    /\ outs[1] = FreshRun(rateOf[1], log[1]).outs

\* C5: two cascades of the same rate, neither reset, each fed the stream from
\* its start: over the steps both have taken, their outputs and their states
\* after each step are equal, whatever the interleaving.
C5_Determinism ==
    (/\ filt[1] # None /\ filt[2] # None
     /\ rateOf[1] = rateOf[2]
     /\ phase[1] = "fresh" /\ phase[2] = "fresh") =>
        LET m == Min(Len(log[1]), Len(log[2]))
        IN  /\ SubSeq(log[1], 1, m) = SubSeq(log[2], 1, m)
            /\ SubSeq(outs[1], 1, m) = SubSeq(outs[2], 1, m)
            /\ SubSeq(snaps[1], 1, m) = SubSeq(snaps[2], 1, m)
            /\ Len(snaps[1]) = Len(log[1])
            /\ Len(snaps[2]) = Len(log[2])
            /\ (Len(log[1]) = Len(log[2]) => filt[1] = filt[2])

C5_Witness ==
    /\ filt[1] # None /\ filt[2] # None
    /\ rateOf[1] = rateOf[2]
    /\ phase[1] = "fresh" /\ phase[2] = "fresh"
    /\ Len(log[1]) = 2
    /\ Len(log[2]) = 1
    /\ outs[2][1] # 0
    /\ outs[1][1] = outs[2][1]
    /\ snaps[1][1] = snaps[2][1]

\* the table's rates
SupportedRates == {32000, 44100, 48000}

\* C7: constructing with a supported rate raises nothing and yields a
\* yulewalk stage of order 10 and a butterworth stage of order 2, each holding
\* its own half of the table entry; every vector has order + 1 entries
\* (11 and 3) and feedback[0] is 1.0.
C7_ConstructionConfigures ==
    /\ DOMAIN REPLAYGAIN_COEFFS = SupportedRates
    /\ \A sr \in SupportedRates :
          /\ Len(REPLAYGAIN_COEFFS[sr].yule_a) = 11
          /\ Len(REPLAYGAIN_COEFFS[sr].yule_b) = 11
          /\ Len(REPLAYGAIN_COEFFS[sr].butter_a) = 3
          /\ Len(REPLAYGAIN_COEFFS[sr].butter_b) = 3
          /\ REPLAYGAIN_COEFFS[sr].yule_a[1] = 1000
          /\ REPLAYGAIN_COEFFS[sr].butter_a[1] = 1000
    /\ (op = "init" /\ arg \in SupportedRates) =>
          /\ err = NoExc
          /\ filt[1] # None
          /\ filt[1].yulewalk_filter.order = 10
          /\ filt[1].butterworth_filter.order = 2
          /\ filt[1].yulewalk_filter.feedback = REPLAYGAIN_COEFFS[arg].yule_a
          /\ filt[1].yulewalk_filter.feedforward = REPLAYGAIN_COEFFS[arg].yule_b
          /\ filt[1].butterworth_filter.feedback = REPLAYGAIN_COEFFS[arg].butter_a
          /\ filt[1].butterworth_filter.feedforward = REPLAYGAIN_COEFFS[arg].butter_b
          /\ Len(filt[1].yulewalk_filter.feedback) = 11
          /\ Len(filt[1].yulewalk_filter.feedforward) = 11
          /\ Len(filt[1].butterworth_filter.feedback) = 3
          /\ Len(filt[1].butterworth_filter.feedforward) = 3
          /\ filt[1].yulewalk_filter.feedback[1] # 0
          /\ filt[1].butterworth_filter.feedback[1] # 0

C7_Witness ==
    /\ op = "init"
    /\ arg = 48000
    /\ err = NoExc
    /\ filt[1] # None
    /\ filt[1].butterworth_filter.feedforward = <<986, -1972, 986>>

\* C8: a process or reset call raises nothing; only the constructor raises.
C8_NoSteadyStateError ==
    /\ (op \in {"process", "reset"} => err = NoExc /\ filt[1] # None)
    /\ (err # NoExc => op = "init" /\ filt[1] = None)
    /\ (op = "process" => Len(calls) = 2 /\ ret = calls[2].ret)

C8_Witness ==
    /\ op = "process"
    /\ err = NoExc
    /\ phase[1] = "resetDirty"
    /\ Len(log[1]) >= 2
    /\ ret # 0

\* the cascade a with its four history buffers replaced by those of b
WithHistories(a, b) ==
    [a EXCEPT
       !.yulewalk_filter.input_history     = b.yulewalk_filter.input_history,
       !.yulewalk_filter.output_history    = b.yulewalk_filter.output_history,
       !.butterworth_filter.input_history  = b.butterworth_filter.input_history,
       !.butterworth_filter.output_history = b.butterworth_filter.output_history]

\* each constructed cascade holds the orders and the table entry of its rate
CoefficientsIntact ==
    /\ REPLAYGAIN_COEFFS = ReplayGainCoeffs
    /\ \A i \in Inst :
          filt[i] # None =>
             /\ rateOf[i] \in DOMAIN ReplayGainCoeffs
             /\ filt[i].yulewalk_filter.order = YulewalkOrder
             /\ filt[i].butterworth_filter.order = ButterworthOrder
             /\ filt[i].yulewalk_filter.feedback = ReplayGainCoeffs[rateOf[i]].yule_a
             /\ filt[i].yulewalk_filter.feedforward = ReplayGainCoeffs[rateOf[i]].yule_b
             /\ filt[i].butterworth_filter.feedback = ReplayGainCoeffs[rateOf[i]].butter_a
             /\ filt[i].butterworth_filter.feedforward = ReplayGainCoeffs[rateOf[i]].butter_b

\* C9: in every state each constructed cascade's stage orders and coefficient
\* vectors are the table entry of the rate it was constructed with, and the
\* table is the one the module defines; a reset step changes nothing but the
\* four history buffers of the one cascade it is called on.
C9_CoefficientsFrame ==
    /\ []CoefficientsIntact
    /\ [][op' = "reset" =>
            /\ REPLAYGAIN_COEFFS' = REPLAYGAIN_COEFFS
            /\ rateOf' = rateOf
            /\ \E i \in Inst :
                  /\ filt[i] # None
                  /\ \A j \in Inst \ {i} : filt'[j] = filt[j]
                  /\ WithHistories(filt'[i], filt[i]) = filt[i]
                  /\ ~Dirty(filt'[i])
       ]_vars

C9_Witness ==
    /\ op = "reset"
    /\ phase[1] = "resetDirty"
    /\ phase[2] = "fresh"
    /\ rateOf[1] # rateOf[2]
    /\ Len(log[2]) = 2
    /\ filt[1].yulewalk_filter.feedback = ReplayGainCoeffs[rateOf[1]].yule_a
    /\ filt[2].yulewalk_filter.feedback = ReplayGainCoeffs[rateOf[2]].yule_a

\* C10: the yulewalk histories always hold 10 entries and the butterworth
\* histories 2; once a stage has been called at least `order` times since
\* construction or the last reset, its input history is the last `order`
\* values it was given and its output history the last `order` values it
\* produced, oldest first.
C10_HistoryWindow ==
    filt[1] # None =>
        LET yf == filt[1].yulewalk_filter
            bf == filt[1].butterworth_filter
        IN  /\ Len(yf.input_history) = 10
            /\ Len(yf.output_history) = 10
            /\ Len(bf.input_history) = 2
            /\ Len(bf.output_history) = 2
            /\ Len(mids[1]) = Len(log[1])
            /\ Len(outs[1]) = Len(log[1])
            /\ (Len(log[1]) >= 10 =>
                   /\ yf.input_history = LastN(log[1], 10)
                   /\ yf.output_history = LastN(mids[1], 10))
            /\ (Len(log[1]) >= 2 =>
                   /\ bf.input_history = LastN(mids[1], 2)
                   /\ bf.output_history = LastN(outs[1], 2))

C10_Witness ==
    /\ phase[1] = "resetDirty"
    /\ Len(log[1]) > 10
    /\ log[1][1] # 0
    /\ log[1][1] # log[1][2]
    /\ filt[1].yulewalk_filter.input_history = LastN(log[1], 10)
    /\ filt[1].butterworth_filter.input_history = LastN(mids[1], 2)
    /\ filt[1].butterworth_filter.input_history[1]
         # filt[1].butterworth_filter.input_history[2]

=============================================================================
